---- MODULE Spec2Model ----
(***************************************************************************)
(* Model of the nameblocker content script (src/Content.js) and the popup  *)
(* toggle (src/popup.js).                                                  *)
(*                                                                         *)
(* Content.js is one classic script that holds two generations of the     *)
(* code.  Function declarations are hoisted and the later declaration of   *)
(* a name wins, so every call of censorNames / observeDOMChanges, the      *)
(* calls at lines 7, 8 and 17 included, runs the definitions of lines 137  *)
(* and 200.  Both fetches and both storage listeners are live.             *)
(*                                                                         *)
(* Texts are sequences of one-character strings.                           *)
(*                                                                         *)
(* Three specifications share the actions:                                 *)
(*   Spec       a page load with the popup toggle, the storage             *)
(*              notifications and the reload;                              *)
(*   DomSpec    a page load in which the flag is left alone, the page adds *)
(*              a wider choice of text nodes and the user clicks;          *)
(*   MatchSpec  the matcher applied to every short text.                   *)
(***************************************************************************)
EXTENDS Integers, Sequences, FiniteSets, TLC

\* ------------------------------------------------------------------ bounds
MaxDom == 4          \* most items the modelled document body may hold
MaxPageNodes == 2    \* the page adds a node only to a body shorter than this
MaxChanges == 1      \* most storage change notifications in flight
TickMs == 150        \* granularity of the modelled clock, in milliseconds
MaxTextLen == 4      \* longest text the matcher is tried on by itself

\* ------------------------------------------------------- program constants
DebounceTimeout == 300

\* ------------------------------------------------------------------- state
VARIABLES
    dictText,              \* content of first-names.txt
    stored,                \* chrome.storage.local "enabled": "undefined", "true", "false"
    changes,               \* onChanged notifications on their way to the page (newValue)
    topFetch,              \* the fetch of line 3: "pending", "ok", "http_error", "network_error"
    initFetch,             \* the fetch of line 103: "pending", "ok", "failed"
    nameList,              \* line 2
    nameRegex,             \* line 71
    isEnabled,             \* line 72
    observers,             \* MutationObservers observing document.body
    geminiCensorObserver,  \* window.geminiCensorObserver (0: undefined)
    timer,                 \* the timer variable of the debounce closure (0: undefined)
    timeouts,              \* pending setTimeout callbacks: [id, remaining]
    dom,                   \* document.body
    reloadRequested,       \* location.reload() was called in this page load
    burst,                 \* history: the current burst of notifications
    persistedFalse,        \* history: "enabled" was false at page load and since
    afterReload,           \* history: this page load follows a reload
    op                     \* history: the step taken last

vars == <<dictText, stored, changes, topFetch, initFetch, nameList, nameRegex,
          isEnabled, observers, geminiCensorObserver, timer, timeouts, dom,
          reloadRequested, burst, persistedFalse, afterReload, op>>

\* ------------------------------------------------------------ characters
WhiteSpace == {" ", "\n", "\r", "\t"}

\* \w of the regular expression, over the modelled alphabet
IsWordChar(c) == c \in {"a", "l", "x", "A", "L"}

\* canonical form used by the i flag
Lower(c) == IF c = "A" THEN "a" ELSE IF c = "L" THEN "l" ELSE c

Min(a, b) == IF a < b THEN a ELSE b
Max(a, b) == IF a > b THEN a ELSE b

\* the least element of a non-empty set of integers
MinOf(S) == CHOOSE x \in S : \A y \in S : x <= y

\* ------------------------------------------------- dictionary text parsing

\* text.split(/\r?\n/)
RECURSIVE SplitFrom(_, _, _)
SplitFrom(text, i, cur) ==
    IF i > Len(text) THEN <<cur>>
    ELSE IF text[i] = "\n" THEN <<cur>> \o SplitFrom(text, i + 1, <<>>)
    ELSE IF text[i] = "\r" /\ i < Len(text) /\ text[i + 1] = "\n"
         THEN <<cur>> \o SplitFrom(text, i + 2, <<>>)
    ELSE SplitFrom(text, i + 1, Append(cur, text[i]))

SplitLines(text) == SplitFrom(text, 1, <<>>)

\* .filter(Boolean): the empty string is the only falsy string
FilterBoolean(lines) == SelectSeq(lines, LAMBDA s : s # <<>>)

\* String.prototype.trim
RECURSIVE TrimStart(_)
TrimStart(s) ==
    IF s # <<>> /\ Head(s) \in WhiteSpace THEN TrimStart(Tail(s)) ELSE s

RECURSIVE TrimEnd(_)
TrimEnd(s) ==
    IF s # <<>> /\ s[Len(s)] \in WhiteSpace
    THEN TrimEnd(SubSeq(s, 1, Len(s) - 1)) ELSE s

Trim(s) == TrimEnd(TrimStart(s))

\* line 6: text.split(/\r?\n/).filter(Boolean)
TopNameList(text) == FilterBoolean(SplitLines(text))

\* line 111: text.split(/\r?\n/).filter(Boolean).map(n => n.trim())
MapTrim(kept) == [i \in 1..Len(kept) |-> Trim(kept[i])]
InitNameList(text) == MapTrim(FilterBoolean(SplitLines(text)))

\* ------------------------------------------------------------- the matcher
\* nameRegex is null or new RegExp(`\\b(?:${pattern})\\b`, 'gi') with
\* pattern = nameList.join("|"); the names of the model hold no regular
\* expression metacharacter, so the alternatives are the names, in order.
NullRegex == [compiled |-> FALSE, names |-> <<>>]
NewRegExp(names) == [compiled |-> TRUE, names |-> names]

\* a matcher built without the two \b: every offset passes for a boundary
NoWordBoundary(text, p) == p \in 0..Len(text)

\* \b at offset p (between text[p] and text[p+1]), 0 <= p <= Len(text)
WordBoundary(text, p) ==
    (p >= 1 /\ IsWordChar(text[p])) # (p < Len(text) /\ IsWordChar(text[p + 1]))

\* the alternative name matches at offset p, the closing \b included
AltMatches(text, p, name) ==
    /\ p + Len(name) <= Len(text)
    /\ \A k \in 1..Len(name) : Lower(text[p + k]) = Lower(name[k])
    /\ WordBoundary(text, p + Len(name))

\* length of the match that starts at offset p, or -1: the opening \b,
\* then the first alternative (in dictionary order) that lets the rest match
FirstAlternative(names, ok) ==
    IF ok = {} THEN -1 ELSE Len(names[MinOf(ok)])
MatchLenAt(text, p, names) ==
    IF ~WordBoundary(text, p) THEN -1
    ELSE FirstAlternative(names,
                          {j \in 1..Len(names) : AltMatches(text, p, names[j])})

\* RegExp exec from lastIndex p: the leftmost match at or after offset p,
\* among the offsets' outcomes lens (offset -> match length or -1)
LeftmostMatch(lens, hits) ==
    IF hits = {} THEN [index |-> -1, len |-> 0]
    ELSE [index |-> MinOf(hits), len |-> lens[MinOf(hits)]]
MatchOffsets(lens) == LeftmostMatch(lens, {q \in DOMAIN lens : lens[q] >= 0})
ExecFrom(text, p, names) ==
    MatchOffsets([q \in p..Len(text) |-> MatchLenAt(text, q, names)])

\* nameRegex.test(value); lastIndex is 0 before every call: a failed test
\* resets it and line 163 resets it after a successful one
RegexTest(regex, value) == ExecFrom(value, 0, regex.names).index >= 0

\* text.replace(nameRegex, match => `<span class="...">${match}</span>`)
\* The markup string is a sequence of tokens: the characters of the text
\* and the two tags the callback writes.
SPOILER_CLASS == "gemini-spoiler-censor"
OpenSpan == "<span class=\"gemini-spoiler-censor\">"
CloseSpan == "</span>"

WrapMatch(match) == <<OpenSpan>> \o match \o <<CloseSpan>>

\* the global replace loop: p is lastIndex, last the offset copied up to;
\* an empty match advances lastIndex by one
RECURSIVE ReplaceFrom(_, _, _, _)
RECURSIVE ReplaceMatch(_, _, _, _)
ReplaceMatch(text, last, names, m) ==
    IF m.index < 0 THEN SubSeq(text, last + 1, Len(text))
    ELSE SubSeq(text, last + 1, m.index)
         \o WrapMatch(SubSeq(text, m.index + 1, m.index + m.len))
         \o ReplaceFrom(text,
                        IF m.len = 0 THEN m.index + 1 ELSE m.index + m.len,
                        m.index + m.len, names)
ReplaceFrom(text, p, last, names) ==
    ReplaceMatch(text, last, names, ExecFrom(text, p, names))

ReplacementHTML(regex, originalText) == ReplaceFrom(originalText, 0, 0, regex.names)

\* ---------------------------------------------------------------- the DOM
\* document.body is the sequence, in document order, of its text nodes and
\* of the elements that carry SPOILER_CLASS.  A text node has the nodeName
\* of its parent element; an element has its own nodeName, that of its
\* parent, the text it holds before its first child element and its
\* revealed state.  nested: the parent element carries SPOILER_CLASS.
Node(type, nodeName, parent, value, nested) ==
    [type |-> type, nodeName |-> nodeName, parent |-> parent, value |-> value,
     revealed |-> FALSE, nested |-> nested]
TextNode(parent, value) == Node("text", "#text", parent, value, FALSE)
SpoilerElement(parent, value) == Node("spoiler", "span", parent, value, FALSE)

\* the text node the walker sees at item i, if any: the item itself, or
\* the text child of an element
HasTextNode(item) == item.value # <<>>
ParentNodeName(item) == IF item.type = "spoiler" THEN item.nodeName ELSE item.parent
ParentHasSpoilerClass(item) == item.type = "spoiler" \/ item.nested

\* tempDiv.innerHTML = replacementHTML, lines 181-182: the string is parsed
\* as markup, the text of the original node included.  The texts of the
\* model hold no "&", "/", "!", "?", "=" or quote, and a match holds no "<".
\*  - "<" followed by an ASCII letter opens a start tag.  The tag runs to
\*    the next ">", which is the one that ends the next token the callback
\*    wrote: all the text up to there is tag name and attribute names.  At
\*    the end of the string the unfinished tag and all behind it is dropped.
\*  - when that token is the opening tag of a span its class attribute
\*    becomes the element's, and the span's end tag, which then closes no
\*    open span, is ignored.
\*  - any other "<" is text.
\* the letters of the modelled alphabet
IsAsciiAlpha(c) == IsWordChar(c)

\* the least index above i of one of the tokens, or Len(html) + 1
NextToken(html, i, tokens) ==
    MinOf({j \in (i + 1)..Len(html) : html[j] \in tokens} \cup {Len(html) + 1})

RECURSIVE JoinLower(_)
JoinLower(s) == IF s = <<>> THEN "" ELSE Lower(Head(s)) \o JoinLower(Tail(s))

\* the tag name of the start tag opened at i and ended by the token at j:
\* the characters up to the first white space, the token's own when no
\* white space comes before it
TagNameEnd(html, i, j) ==
    MinOf({k \in (i + 1)..(j - 1) : html[k] \in WhiteSpace} \cup {j})
TagName(html, i, j, k) ==
    JoinLower(SubSeq(html, i + 1, k - 1))
    \o (IF k < j THEN "" ELSE IF html[j] = OpenSpan THEN "<span" ELSE "<")

\* the nodes the parser makes inside the element that holds item: the text
\* node that follows item, a spoiler span, the element a start tag opens
\* (an item of its own when it carries the class, else the parent of the
\* text that follows)
TextAfter(item) ==
    Node("text", "#text", ParentNodeName(item), <<>>, ParentHasSpoilerClass(item))
SpanNode(item, content) ==
    Node("spoiler", "span", ParentNodeName(item), content, ParentHasSpoilerClass(item))
OpenedElement(item, nodeName, hasClass) ==
    IF hasClass
    THEN Node("spoiler", nodeName, ParentNodeName(item), <<>>, ParentHasSpoilerClass(item))
    ELSE Node("text", "#text", nodeName, <<>>, FALSE)

\* the node a finished run of characters makes: nothing for an empty run
\* of text
Emit(item) == IF item.type = "text" /\ item.value = <<>> THEN <<>> ELSE <<item>>

\* item: the node the characters read go to
RECURSIVE ParseFrom(_, _, _)
RECURSIVE ParseSpan(_, _, _, _)
RECURSIVE ParseTag(_, _, _, _)
ParseSpan(html, i, j, item) ==
    Emit(item) \o <<SpanNode(item, SubSeq(html, i + 1, j - 1))>>
    \o ParseFrom(html, j + 1, TextAfter(item))
ParseTag(html, i, j, item) ==
    IF j > Len(html) THEN Emit(item)
    ELSE Emit(item)
         \o ParseFrom(html, j + 1,
                      OpenedElement(item, TagName(html, i, j, TagNameEnd(html, i, j)),
                                    html[j] = OpenSpan))
ParseFrom(html, i, item) ==
    IF i > Len(html) THEN Emit(item)
    ELSE IF html[i] = CloseSpan THEN ParseFrom(html, i + 1, item)
    ELSE IF html[i] = OpenSpan
    THEN ParseSpan(html, i, NextToken(html, i, {CloseSpan}), item)
    ELSE IF html[i] = "<" /\ i < Len(html) /\ IsAsciiAlpha(html[i + 1])
    THEN ParseTag(html, i, NextToken(html, i, {OpenSpan, CloseSpan}), item)
    ELSE ParseFrom(html, i + 1, [item EXCEPT !.value = Append(@, html[i])])

\* the children of tempDiv, to be spliced under the original node's parent
ParseHTML(html, parent) == ParseFrom(html, 1, TextNode(parent, <<>>))

\* /\S/.test(value)
HasNonSpace(value) == \E k \in 1..Len(value) : value[k] \notin WhiteSpace

\* acceptNode without the nameRegex test of line 159
AcceptNodeNoRegexTest(item, regex) ==
    ~(\/ ParentNodeName(item) \in {"script", "style", "textarea", "input"}
      \/ ParentHasSpoilerClass(item)
      \/ ~HasNonSpace(item.value))

\* acceptNode without the tests of the parent's nodeName and of white space
AcceptNodeNoParentTest(item, regex) ==
    IF ParentHasSpoilerClass(item) THEN FALSE ELSE RegexTest(regex, item.value)

\* acceptNode, lines 147-165: TRUE is FILTER_ACCEPT, FALSE is FILTER_REJECT
AcceptNode(item, regex) ==
    IF \/ ParentNodeName(item) \in {"script", "style", "textarea", "input"}
       \/ ParentHasSpoilerClass(item)
       \/ ~HasNonSpace(item.value)
    THEN FALSE
    ELSE RegexTest(regex, item.value)

\* walker.nextNode(): 0 is null.  The walker's current node is the root
\* (pos 0) or the node it returned last.  Once that node has been removed
\* from the tree it has neither a sibling nor a parent, so the search for a
\* following node finds nothing and nextNode returns null.
RootWalker == [attached |-> TRUE, pos |-> 0]
FirstOrNull(next) == IF next = {} THEN 0 ELSE MinOf(next)
NextNode(d, walker, regex) ==
    IF ~walker.attached THEN 0
    ELSE FirstOrNull({i \in (walker.pos + 1)..Len(d) :
                         HasTextNode(d[i]) /\ AcceptNode(d[i], regex)})

\* lines 172-188: the new nodes are inserted before the node, then the node
\* is removed
ReplaceNode(d, i, regex) ==
    SubSeq(d, 1, i - 1)
    \o ParseHTML(ReplacementHTML(regex, d[i].value), d[i].parent)
    \o SubSeq(d, i + 1, Len(d))

\* lines 170-189: while (node = walker.nextNode()) { replace node }
RECURSIVE WalkLoop(_, _, _, _)
RECURSIVE LoopBody(_, _, _, _)
LoopBody(d, node, regex, count) ==
    IF node = 0 THEN [dom |-> d, count |-> count]
    ELSE WalkLoop(ReplaceNode(d, node, regex),
                  [attached |-> FALSE, pos |-> node], regex, count + 1)
WalkLoop(d, walker, regex, count) ==
    LoopBody(d, NextNode(d, walker, regex), regex, count)

\* censorNames without the nameRegex half of its guard, censoring with the
\* top-level nameList as the first generation of the function did
CensorNamesNoRegexGuard(enabled, regex, d) ==
    IF ~enabled
    THEN [dom |-> d, count |-> 0, passed |-> FALSE]
    ELSE [passed |-> TRUE] @@
         WalkLoop(d, RootWalker,
                  IF regex.compiled THEN regex ELSE NewRegExp(nameList), 0)

\* censorNames, lines 137-190.  passed: the guard of line 138 let the call
\* through; count: text nodes replaced
CensorNames(enabled, regex, d) ==
    IF ~enabled \/ ~regex.compiled
    THEN [dom |-> d, count |-> 0, passed |-> FALSE]
    ELSE [passed |-> TRUE] @@ WalkLoop(d, RootWalker, regex, 0)

\* a text node the eligibility filter accepts
Eligible(d, regex) ==
    {i \in 1..Len(d) : HasTextNode(d[i]) /\ AcceptNode(d[i], regex)}
Spoilers(d) == {i \in 1..Len(d) : d[i].type = "spoiler"}

\* ------------------------------------------------------------------ inputs
\* contents the packaged first-names.txt may have
DictTexts ==
    { <<" ", "a", "l", "\r", "\n">>,   \* one padded name, trailing empty line
      <<" ">>,                         \* one whitespace-only line
      <<>> }                           \* empty file

\* body of a non-OK response
ErrorBody == <<"a", "l">>

\* text nodes the page may add, and the elements it may add them under
PageNodes ==
    { TextNode("p", <<"a", "l">>),
      TextNode("p", <<"A", "L", " ", "a", "l", "x">>),
      TextNode("script", <<"a", "l">>) }

\* text nodes the page may add in a page load that is followed node by
\* node: a name, a word a name is a prefix of, a name in a script, white
\* space, and names behind a "<" that opens a tag
DomNodes ==
    { TextNode("p", <<"a", "l">>),
      TextNode("p", <<"a", "l", "x">>),
      TextNode("script", <<"a", "l">>),
      TextNode("p", <<" ">>),
      TextNode("p", <<"<", "x", " ", "a", "l", " ", "a", "l">>) }

\* op: name of the step ("Environment" for the steps that are not a handler
\* of the content script); newValue of the notification handled; calls of
\* location.reload(); calls of censorNames and how many passed the guard;
\* text nodes replaced; for a debounce timer, the time since the last
\* notification and the runs of the burst when it fired; for a click, the
\* item clicked
Op(name) == [name |-> name, kind |-> "", newValue |-> FALSE, reloads |-> 0, calls |-> 0,
             passes |-> 0, replaced |-> 0, since |-> 0, runs |-> 0, target |-> 0]

\* ---------------------------------------------------------------- debounce
\* setTimeout hands out an id that no pending timeout and no variable holds
FreshId(t, pending) ==
    CHOOSE i \in 1..(Cardinality(pending) + 2) :
        /\ i # t
        /\ \A e \in pending : e.id # i
        /\ \A j \in 1..(i - 1) : j = t \/ \E e \in pending : e.id = j

ClearTimeout(id, pending) == {e \in pending : e.id # id}

\* timer = setTimeout(..., timeout), line 87
Scheduled(id, pending) ==
    [timer |-> id,
     timeouts |-> pending \cup {[id |-> id, remaining |-> DebounceTimeout]}]
SetTimeout(t, pending) == Scheduled(FreshId(t, pending), pending)

\* debounce without its clearTimeout: every call leaves one more timeout
DebouncedNoClear(s) == SetTimeout(s.timer, s.timeouts)

\* the function debounce returns, lines 85-88, on s = [timer, timeouts]
Debounced(s) == SetTimeout(s.timer, ClearTimeout(s.timer, s.timeouts))

\* a notification opens a burst when none arrived in the window before it
NoBurst == [since |-> DebounceTimeout, runs |-> 0, len |-> 0]
Notified(b) ==
    IF b.since >= DebounceTimeout
    THEN [since |-> 0, runs |-> 0, len |-> 1]
    ELSE [since |-> 0, runs |-> b.runs, len |-> Min(b.len + 1, 2)]

\* the callback without the isEnabled test of line 203
ObserverCallbackNoEnabledTest(enabled, s) ==
    [burst |-> Notified(s.burst)] @@ Debounced(s)

\* the MutationObserver callback, lines 202-205, on
\* s = [timer, timeouts, burst]
ObserverCallback(enabled, s) ==
    IF ~enabled THEN s
    ELSE [burst |-> Notified(s.burst)] @@ Debounced(s)

\* a mutation batch is delivered to each of the n observers that were
\* observing when the body changed
RECURSIVE Notify(_, _, _)
Notify(n, enabled, s) ==
    IF n = 0 THEN s ELSE Notify(n - 1, enabled, ObserverCallback(enabled, s))

DebounceState == [timer |-> timer, timeouts |-> timeouts, burst |-> burst]

\* observeDOMChanges, lines 200-214
NewObserver == Cardinality(observers) + 1

\* ----------------------------------------------------------------- actions
\* the state a page load starts in: the script has run to its last line,
\* both fetches are issued and both storage listeners are registered
PageLoaded ==
    /\ changes = <<>>
    /\ topFetch = "pending"
    /\ initFetch = "pending"
    /\ nameList = <<>>
    /\ nameRegex = NullRegex
    /\ isEnabled = TRUE
    /\ observers = {}
    /\ geminiCensorObserver = 0
    /\ timer = 0
    /\ timeouts = {}
    /\ dom = <<>>
    /\ reloadRequested = FALSE
    /\ burst = NoBurst

Init ==
    /\ dictText \in DictTexts
    /\ stored = "undefined"
    /\ PageLoaded
    /\ persistedFalse = (stored = "false")
    /\ afterReload = FALSE
    /\ op = Op("Load")

\* the mutation batches a step's replacements cause: one callback for each
\* observer that was observing, run when the step's script has returned
Deliver(replaced, enabled, s) ==
    Notify(IF replaced > 0 THEN Cardinality(observers) ELSE 0, enabled, s)

\* the debounce closure and the burst after the callbacks have run
Delivered(s) ==
    /\ timer' = s.timer
    /\ timeouts' = s.timeouts
    /\ burst' = s.burst

\* what a handler's one call of censorNames did
Censored(name, r) ==
    [Op(name) EXCEPT !.calls = 1,
                     !.passes = IF r.passed THEN 1 ELSE 0,
                     !.replaced = r.count]

\* lines 7-8: censorNames(nameList), then observeDOMChanges(nameList)
TopFetchThen(r) ==
    /\ Len(r.dom) <= MaxDom
    /\ dom' = r.dom
    /\ observers' = observers \cup {NewObserver}
    /\ geminiCensorObserver' = NewObserver
    /\ Delivered(Deliver(r.count, isEnabled, DebounceState))
    /\ op' = Censored("TopFetchResolve", r)

\* lines 3-9: the top-level fetch resolves (a non-OK response resolves too)
TopFetchResolve(status) ==
    /\ topFetch = "pending"
    /\ topFetch' = status
    /\ nameList' = TopNameList(IF status = "ok" THEN dictText ELSE ErrorBody)
    /\ TopFetchThen(CensorNames(isEnabled, nameRegex, dom))
    /\ UNCHANGED <<dictText, stored, changes, initFetch, nameRegex, isEnabled,
                   reloadRequested, persistedFalse, afterReload>>

\* lines 10-12: the top-level fetch rejects
TopFetchReject ==
    /\ topFetch = "pending"
    /\ topFetch' = "network_error"
    /\ op' = Op("TopFetchReject")
    /\ UNCHANGED <<dictText, stored, changes, initFetch, nameList, nameRegex,
                   isEnabled, observers, geminiCensorObserver, timer, timeouts,
                   dom, reloadRequested, burst, persistedFalse, afterReload>>

\* lines 123-124: censorNames(), then observeDOMChanges()
InitFetchStart(name, r) ==
    /\ Len(r.dom) <= MaxDom
    /\ dom' = r.dom
    /\ observers' = observers \cup {NewObserver}
    /\ geminiCensorObserver' = NewObserver
    /\ Delivered(Deliver(r.count, isEnabled, DebounceState))
    /\ op' = Censored(name, r)

\* lines 111-124, on the name list of line 111
InitFetchThen(name, list) ==
    IF Len(list) = 0
    THEN /\ op' = Op(name)
         /\ UNCHANGED <<nameRegex, dom, observers, geminiCensorObserver,
                        timer, timeouts, burst>>
    ELSE /\ nameRegex' = NewRegExp(list)
         /\ InitFetchStart(name, CensorNames(isEnabled, NewRegExp(list), dom))

\* lines 110-125: the fetch of initialize resolves with an OK response
InitFetchResolve ==
    /\ initFetch = "pending"
    /\ initFetch' = "ok"
    /\ InitFetchThen("InitFetchResolve", InitNameList(dictText))
    /\ UNCHANGED <<dictText, stored, changes, topFetch, nameList, isEnabled,
                   reloadRequested, persistedFalse, afterReload>>

\* initialize without the result.ok test of line 105: the body of a non-OK
\* response is taken for the dictionary, as the top-level fetch takes it
InitFetchFailNoOkTest(kind) ==
    /\ initFetch = "pending"
    /\ initFetch' = "failed"
    /\ InitFetchThen("InitFetchFail",
                     IF kind = "network_error" THEN <<>> ELSE InitNameList(ErrorBody))
    /\ UNCHANGED <<dictText, stored, changes, topFetch, nameList, isEnabled,
                   reloadRequested, persistedFalse, afterReload>>

\* lines 105-107 and 126-128: a non-OK response throws, a network failure
\* rejects; both end in the catch
InitFetchFail(kind) ==
    /\ initFetch = "pending"
    /\ initFetch' = "failed"
    /\ op' = [Op("InitFetchFail") EXCEPT !.kind = kind]
    /\ UNCHANGED <<dictText, stored, changes, topFetch, nameList, nameRegex,
                   isEnabled, observers, geminiCensorObserver, timer, timeouts,
                   dom, reloadRequested, burst, persistedFalse, afterReload>>

\* the page adds a text node under document.body
PageMutation(node) ==
    /\ Len(dom) < MaxPageNodes
    /\ dom' = Append(dom, node)
    /\ Delivered(Notify(Cardinality(observers), isEnabled, DebounceState))
    /\ op' = Op("Environment")
    /\ UNCHANGED <<dictText, stored, changes, topFetch, initFetch, nameList,
                   nameRegex, isEnabled, observers, geminiCensorObserver,
                   reloadRequested, persistedFalse, afterReload>>

\* time passes
Tick ==
    /\ timeouts' = {[id |-> e.id, remaining |-> Max(0, e.remaining - TickMs)] :
                       e \in timeouts}
    /\ burst' = [burst EXCEPT !.since = Min(DebounceTimeout, @ + TickMs)]
    /\ op' = Op("Environment")
    /\ UNCHANGED <<dictText, stored, changes, topFetch, initFetch, nameList,
                   nameRegex, isEnabled, observers, geminiCensorObserver, timer,
                   dom, reloadRequested, persistedFalse, afterReload>>

\* the timeout e has run func.apply(this, args), that is censorNames
TimerRan(e, r) ==
    /\ Len(r.dom) <= MaxDom
    /\ dom' = r.dom
    /\ Delivered(Deliver(r.count, isEnabled,
                         [timer |-> timer,
                          timeouts |-> timeouts \ {e},
                          burst |-> [burst EXCEPT !.runs = Min(@ + 1, 2)]]))
    /\ op' = [Censored("DebounceTimerFired", r) EXCEPT
                 !.since = burst.since,
                 !.runs = Min(burst.runs + 1, 2)]

\* line 87: a timeout set by the debounced function comes due and runs
\* censorNames
DebounceTimerFired ==
    \E e \in timeouts :
        /\ e.remaining = 0
        /\ TimerRan(e, CensorNames(isEnabled, nameRegex, dom))
        /\ UNCHANGED <<dictText, stored, changes, topFetch, initFetch, nameList,
                       nameRegex, isEnabled, observers, geminiCensorObserver,
                       reloadRequested, persistedFalse, afterReload>>

\* popup.js lines 1-8: get("enabled"), then set({enabled: !enabled}); the
\* change is announced to the page's onChanged listeners
PopupToggle ==
    /\ Len(changes) < MaxChanges
    /\ stored' = IF stored # "true" THEN "true" ELSE "false"
    /\ changes' = Append(changes, stored # "true")
    /\ persistedFalse' = (persistedFalse /\ stored = "true")
    /\ op' = Op("Environment")
    /\ UNCHANGED <<dictText, topFetch, initFetch, nameList, nameRegex, isEnabled,
                   observers, geminiCensorObserver, timer, timeouts, dom,
                   reloadRequested, burst, afterReload>>

\* a listener's location.reload(): nothing is censored
Reloading(d) == [dom |-> d, count |-> 0, passed |-> FALSE]

\* calls of location.reload() one listener makes, lines 19 and 227
ReloadCalls(newValue) == IF newValue THEN 0 ELSE 1

\* lines 14-22: censorNames(nameList) or location.reload(); isEnabled is
\* still what it was before the notification
FirstListener(newValue) ==
    IF newValue THEN CensorNames(isEnabled, nameRegex, dom) ELSE Reloading(dom)

\* lines 220-230: isEnabled = newValue, then censorNames() or
\* location.reload(), on the body the first listener left
SecondListener(newValue, d) ==
    IF newValue THEN CensorNames(newValue, nameRegex, d) ELSE Reloading(d)

\* both listeners have run: r1 and r2 are what their calls did
ListenersRan(newValue, r1, r2) ==
    /\ Len(r2.dom) <= MaxDom
    /\ changes' = Tail(changes)
    /\ isEnabled' = newValue
    /\ dom' = r2.dom
    /\ reloadRequested' = (reloadRequested \/ ReloadCalls(newValue) > 0)
    /\ Delivered(Deliver(r1.count + r2.count, newValue, DebounceState))
    /\ op' = [Op("StorageChanged") EXCEPT
                 !.newValue = newValue,
                 !.reloads = ReloadCalls(newValue) + ReloadCalls(newValue),
                 !.calls = IF newValue THEN 2 ELSE 0,
                 !.passes = (IF r1.passed THEN 1 ELSE 0)
                            + (IF r2.passed THEN 1 ELSE 0),
                 !.replaced = r1.count + r2.count]

FirstListenerRan(newValue, r1) ==
    ListenersRan(newValue, r1, SecondListener(newValue, r1.dom))

\* one onChanged notification reaches the page: the listener of lines 14-22
\* runs, then the listener of lines 220-230
StorageChanged ==
    /\ changes # <<>>
    /\ FirstListenerRan(Head(changes), FirstListener(Head(changes)))
    /\ UNCHANGED <<dictText, stored, topFetch, initFetch, nameList, nameRegex,
                   observers, geminiCensorObserver, persistedFalse, afterReload>>

\* the reload requested by location.reload() happens: the document is
\* replaced and the script starts again; "enabled" is not read
Reload ==
    /\ reloadRequested
    /\ changes' = <<>>
    /\ topFetch' = "pending"
    /\ initFetch' = "pending"
    /\ nameList' = <<>>
    /\ nameRegex' = NullRegex
    /\ isEnabled' = TRUE
    /\ observers' = {}
    /\ geminiCensorObserver' = 0
    /\ timer' = 0
    /\ timeouts' = {}
    /\ dom' = <<>>
    /\ reloadRequested' = FALSE
    /\ burst' = NoBurst
    /\ persistedFalse' = (stored = "false")
    /\ afterReload' = TRUE
    /\ op' = Op("Reload")
    /\ UNCHANGED <<dictText, stored>>

\* event.target.closest('.' + SPOILER_CLASS), line 272, for a click on the
\* node of item i: the element itself, the parent of a text node when it
\* carries the class, or null (0)
Closest(d, i) ==
    IF d[i].type = "spoiler" THEN i
    ELSE IF ~d[i].nested THEN 0
    ELSE CHOOSE k \in 0..(i - 1) :
             /\ k > 0 => (d[k].type = "spoiler" /\ d[k].nodeName = d[i].parent)
             /\ \A j \in (k + 1)..(i - 1) :
                   ~(d[j].type = "spoiler" /\ d[j].nodeName = d[i].parent)

\* a listener that toggles the class where line 276 adds it
RevealClickToggles(d, k) ==
    IF k = 0 THEN d ELSE [d EXCEPT ![k].revealed = ~@]

\* lines 274-277: classList.add('revealed') unless the element has it
RevealClick(d, k) ==
    IF k = 0 \/ d[k].revealed THEN d ELSE [d EXCEPT ![k].revealed = TRUE]

\* lines 271-278: the capture-phase click listener, for a click on the node
\* of item i; a class change is no childList mutation
Click(i) ==
    /\ i \in 1..Len(dom)
    /\ dom' = RevealClick(dom, Closest(dom, i))
    /\ op' = [Op("Click") EXCEPT !.target = i]
    /\ UNCHANGED <<dictText, stored, changes, topFetch, initFetch, nameList,
                   nameRegex, isEnabled, observers, geminiCensorObserver, timer,
                   timeouts, reloadRequested, burst, persistedFalse, afterReload>>

Next ==
    \/ \E status \in {"ok", "http_error"} : TopFetchResolve(status)
    \/ TopFetchReject
    \/ InitFetchResolve
    \/ \E kind \in {"http_error", "network_error"} : InitFetchFail(kind)
    \/ \E node \in PageNodes : PageMutation(node)
    \/ Tick
    \/ DebounceTimerFired
    \/ PopupToggle
    \/ StorageChanged
    \/ Reload

Spec == Init /\ [][Next]_vars

\* a page load followed node by node: the flag is left alone, the page adds
\* the nodes of DomNodes and the user clicks
DomNext ==
    \/ \E status \in {"ok", "http_error"} : TopFetchResolve(status)
    \/ TopFetchReject
    \/ InitFetchResolve
    \/ \E kind \in {"http_error", "network_error"} : InitFetchFail(kind)
    \/ \E node \in DomNodes : PageMutation(node)
    \/ Tick
    \/ DebounceTimerFired
    \/ \E i \in 1..MaxDom : Click(i)

DomSpec == Init /\ [][DomNext]_vars

\* the matcher by itself: a page that holds one text node when the fetch of
\* initialize resolves, for every text up to MaxTextLen characters and for
\* dictionaries of one or two names, one of them in upper case
MatchDicts ==
    { <<"A">>,
      <<"a", "l">>,
      <<"a", "\n", "a", "l">> }
MatchTexts ==
    UNION {[1..n -> {"a", "l", "A", " "}] : n \in 1..MaxTextLen}

MatchInit ==
    /\ dictText \in MatchDicts
    /\ stored = "undefined"
    /\ changes = <<>>
    /\ topFetch = "pending"
    /\ initFetch = "pending"
    /\ nameList = <<>>
    /\ nameRegex = NullRegex
    /\ isEnabled = TRUE
    /\ observers = {}
    /\ geminiCensorObserver = 0
    /\ timer = 0
    /\ timeouts = {}
    /\ dom \in {<<TextNode("p", text)>> : text \in MatchTexts}
    /\ reloadRequested = FALSE
    /\ burst = NoBurst
    /\ persistedFalse = FALSE
    /\ afterReload = FALSE
    /\ op = Op("Load")

MatchNext == InitFetchResolve

MatchSpec == MatchInit /\ [][MatchNext]_vars

\* ------------------------------------------------------------------ claims

\* C1: in every reachable state of a page load at most one mutation
\* observer is registered on document.body.
AtMostOneObserver == Cardinality(observers) <= 1

\* C2: one change notification that sets the enabled flag to false causes
\* exactly one call of location.reload(), over both onChanged listeners.
DisableReloadsOnce ==
    (op.name = "StorageChanged" /\ ~op.newValue) => op.reloads = 1

\* C3: one change notification that sets the enabled flag to true, arriving
\* after a reload with the matcher built, lets censorNames past its guard
\* exactly once and causes no reload.
EnableCensorsOnce ==
    (op.name = "StorageChanged" /\ op.newValue /\ afterReload /\ nameRegex.compiled)
        => (op.passes = 1 /\ op.reloads = 0)

\* the matcher's alternatives are all non-empty
NamesNonEmpty == \A i \in 1..Len(nameRegex.names) : nameRegex.names[i] # <<>>

\* C4: while the persisted "enabled" value has been false since the page
\* load, no spoiler element exists and no step replaces a text node.
\* (Stated for dictionaries of non-empty names, so that a violation owes
\* nothing to the empty entry of C9.)
PersistedFalseKeepsDomUntouched ==
    (persistedFalse /\ NamesNonEmpty) => (Spoilers(dom) = {} /\ op.replaced = 0)

\* C5: the notifications of a burst (each less than the window after the
\* one before, received while enabled) collapse into one run of censorNames:
\* at most one timeout is pending whatever the number of observers, it is
\* not due before the window has passed since the last notification, a
\* burst that has had no run has its run pending, and the timeout that
\* fires does so a full window after the last notification and is the one
\* run of its burst.
DebounceCollapse ==
    /\ Cardinality(timeouts) <= 1
    /\ \A e \in timeouts : e.remaining >= DebounceTimeout - burst.since
    /\ burst.runs <= 1
    /\ (burst.len > 0 /\ burst.runs = 0) => timeouts # {}
    /\ op.name = "DebounceTimerFired"
          => (op.since >= DebounceTimeout /\ op.runs = 1)

\* a burst of two notifications, delivered by two observers, has had its
\* one run, a pass that got past the guard
DebounceCollapseWitness ==
    /\ op.name = "DebounceTimerFired"
    /\ op.passes = 1
    /\ Cardinality(observers) = 2
    /\ burst.len = 2
    /\ burst.runs = 1
    /\ timeouts = {}

\* C6: before the fetch of initialize has resolved and nameRegex is built
\* there is no spoiler element and no text node is replaced; a call of
\* censorNames made while nameRegex is unset changes nothing and leaves
\* no new timeout behind.
NoCensorBeforeMatcher ==
    /\ [](/\ nameRegex.compiled => initFetch = "ok"
          /\ ~nameRegex.compiled => (Spoilers(dom) = {} /\ op.replaced = 0))
    /\ [][(op'.calls > 0 /\ ~nameRegex'.compiled)
              => (dom' = dom /\ timeouts' \subseteq timeouts)]_vars

\* censorNames was called, by a flag change or a debounce timer, on a body
\* that holds a name while the fetch of initialize was pending
NoCensorBeforeMatcherWitness ==
    /\ op.name \in {"StorageChanged", "DebounceTimerFired"}
    /\ op.calls > 0
    /\ initFetch = "pending"
    /\ \E i \in 1..Len(dom) : dom[i] = TextNode("p", <<"a", "l">>)

\* C7: once the fetch of initialize has failed, nameRegex stays unset, no
\* spoiler element exists and no text node is replaced whatever follows,
\* and the fetch is not issued again in that page load.
FailedFetchIsInert ==
    /\ [](initFetch = "failed"
            => (~nameRegex.compiled /\ Spoilers(dom) = {} /\ op.replaced = 0))
    /\ [][initFetch = "failed" => (initFetch' = "failed" \/ op'.name = "Reload")]_vars

\* after the failure a flag change to true called censorNames on a body
\* that holds a name
FailedFetchIsInertWitness ==
    /\ initFetch = "failed"
    /\ op.name = "StorageChanged"
    /\ op.newValue
    /\ op.calls = 2
    /\ \E i \in 1..Len(dom) : dom[i] = TextNode("p", <<"a", "l">>)

\* every line of the text is empty or whitespace-only
ZeroUsableEntries(text) ==
    \A i \in 1..Len(SplitLines(text)) : Trim(SplitLines(text)[i]) = <<>>

\* C8: with a dictionary of zero usable entries nameRegex is left unset and
\* no pass modifies the DOM.
EmptyDictionaryLeavesMatcherUnset ==
    ZeroUsableEntries(dictText)
        => (~nameRegex.compiled /\ Spoilers(dom) = {} /\ op.replaced = 0)

\* C9: every entry of the name sequence the matcher is built from is
\* non-empty and has no leading or trailing whitespace.
NamesTrimmedAndNonEmpty ==
    nameRegex.compiled =>
        \A i \in 1..Len(nameRegex.names) :
            LET n == nameRegex.names[i]
            IN  n # <<>> /\ n[1] \notin WhiteSpace /\ n[Len(n)] \notin WhiteSpace

\* C10: when a step has run a pass of censorNames, no text node the
\* eligibility filter accepts remains.  (Stated for dictionaries of
\* non-empty names, so that a violation owes nothing to the empty entry of
\* C9.)
PassReplacesEveryEligibleNode ==
    (op.passes > 0 /\ NamesNonEmpty) => Eligible(dom, nameRegex) = {}

\* the text of the body: the text of its nodes in document order
RECURSIVE TextContent(_)
TextContent(d) == IF d = <<>> THEN <<>> ELSE Head(d).value \o TextContent(Tail(d))

\* the text is one of the names, compared as the i flag compares
IsNameOf(value, names) ==
    \E j \in 1..Len(names) :
        /\ Len(names[j]) = Len(value)
        /\ \A k \in 1..Len(value) : Lower(value[k]) = Lower(names[j][k])

\* C11: a step that replaces text nodes leaves the text of the body as it
\* was, character for character, whatever the text holds ("<" included),
\* and every element the censor has put in the body is a spoiler span whose
\* content is a match.
ReplacementPreservesText ==
    /\ [](\A i \in Spoilers(dom) :
             dom[i].nodeName = "span" /\ IsNameOf(dom[i].value, nameRegex.names))
    /\ [][op'.replaced > 0 => TextContent(dom') = TextContent(dom)]_vars

\* no text node of the body, eligible or not, holds a match
NoMatchIn(d, regex) ==
    \A i \in 1..Len(d) : HasTextNode(d[i]) => ~RegexTest(regex, d[i].value)

\* C12: a pass of censorNames over a body in which no text node holds a
\* match replaces nothing, leaves the body as it was and causes no mutation
\* notification: no timeout is scheduled by the step.
PassWithoutMatchIsNoOp ==
    [][(op'.passes > 0 /\ NoMatchIn(dom, nameRegex'))
          => /\ dom' = dom
             /\ op'.replaced = 0
             /\ timer' = timer
             /\ timeouts' \subseteq timeouts]_vars

\* a pass got past the guard on a body whose one text node is a word that
\* a name is a proper prefix of
PassWithoutMatchIsNoOpWitness ==
    /\ op.passes > 0
    /\ nameRegex.compiled
    /\ dom = <<TextNode("p", <<"a", "l", "x">>)>>
    /\ NoMatchIn(dom, nameRegex)

\* C13: no spoiler element lies inside another element that carries the
\* spoiler class, and a pass over a body without an eligible text node adds
\* no spoiler element.
NoDoubleMarking ==
    /\ [](\A i \in Spoilers(dom) : ~dom[i].nested)
    /\ [][(op'.passes > 0 /\ Eligible(dom, nameRegex') = {})
             => Cardinality(Spoilers(dom')) = Cardinality(Spoilers(dom))]_vars

\* how often the item occurs in the body
Occurrences(d, item) == Cardinality({i \in 1..Len(d) : d[i] = item})

\* C14: a click on or inside a spoiler element leaves it revealed; a click
\* on a revealed one changes nothing; and a revealed spoiler element is
\* still there, revealed, after any step of the page load.
RevealIsMonotone ==
    /\ []((op.name = "Click" /\ Closest(dom, op.target) > 0)
             => dom[Closest(dom, op.target)].revealed)
    /\ [][/\ (/\ op'.name = "Click"
              /\ Closest(dom, op'.target) > 0
              /\ dom[Closest(dom, op'.target)].revealed) => dom' = dom
          /\ op'.name # "Reload"
                => \A i \in Spoilers(dom) :
                      dom[i].revealed
                          => Occurrences(dom', dom[i]) >= Occurrences(dom, dom[i])]_vars

\* a debounced pass has replaced a text node of a body that holds a
\* spoiler element revealed before
RevealIsMonotoneWitness ==
    /\ op.name = "DebounceTimerFired"
    /\ op.replaced > 0
    /\ \E i \in Spoilers(dom) : dom[i].revealed
    /\ \E i \in Spoilers(dom) : ~dom[i].revealed

\* an occurrence of a dictionary entry at offset p, n characters long,
\* bounded on both sides by a non-word character or an end of the text
BoundedEntryAt(text, p, n, names) ==
    /\ IsNameOf(SubSeq(text, p + 1, p + n), names)
    /\ p = 0 \/ ~IsWordChar(text[p])
    /\ p + n = Len(text) \/ ~IsWordChar(text[p + n + 1])
BoundedEntries(text, names) ==
    {p \in 0..Len(text) : \E n \in 1..(Len(text) - p) : BoundedEntryAt(text, p, n, names)}

Shielded(item) ==
    /\ item.type = "text"
    /\ \/ item.parent \in {"script", "style", "textarea", "input"}
       \/ ~HasNonSpace(item.value)

\* C16: a text node whose parent is a script, style, textarea or input
\* element, and a text node of white space only, is still in the body,
\* unaltered, after any step of the page load, match or no match.
ShieldedNodesUntouched ==
    [][op'.name # "Reload"
          => \A i \in 1..Len(dom) :
                Shielded(dom[i])
                    => Occurrences(dom', dom[i]) >= Occurrences(dom, dom[i])]_vars

\* a pass has replaced a text node of a body that holds a name in a script
ShieldedNodesUntouchedWitness ==
    /\ op.passes > 0
    /\ op.replaced > 0
    /\ \E i \in 1..Len(dom) : dom[i] = TextNode("script", <<"a", "l">>)

\* C17: every notification of a popup toggle click that the content script
\* handles leaves isEnabled the opposite of what it was, the first click on
\* a fresh profile included.
ToggleFlipsEnabled ==
    [][(op'.name = "StorageChanged" /\ changes' # changes)
          => isEnabled' # isEnabled]_vars

\* the ids of the pending timeouts
TimerIds(pending) == {e.id : e \in pending}

\* C18: from the notification that set the flag to false (the one that
\* called location.reload()) until the reload, no step replaces a text
\* node and none schedules a timeout.
DisabledUntilReload ==
    /\ [](reloadRequested => op.replaced = 0)
    /\ [][(reloadRequested /\ reloadRequested')
             => TimerIds(timeouts') \subseteq TimerIds(timeouts)]_vars

\* C18, amended: while isEnabled is false no step replaces a text node,
\* adds a spoiler element or schedules a timeout: a pending debounced pass
\* fires as a no-op and a mutation batch schedules nothing.
DisabledCensorsNothing ==
    /\ [](~isEnabled => op.replaced = 0)
    /\ [][(~isEnabled /\ ~isEnabled')
             => /\ TimerIds(timeouts') \subseteq TimerIds(timeouts)
                /\ Cardinality(Spoilers(dom')) = Cardinality(Spoilers(dom))]_vars

\* a debounced pass that was pending when the flag went false has fired
\* as a no-op on a body that holds an eligible text node
DisabledCensorsNothingWitness ==
    /\ ~isEnabled
    /\ op.name = "DebounceTimerFired"
    /\ op.calls = 1
    /\ op.passes = 0
    /\ nameRegex.compiled
    /\ Eligible(dom, nameRegex) # {}

\* nothing of the content script is left to run: both fetches are settled,
\* no notification is on its way, no timeout is pending, no reload is due
Quiescent ==
    /\ topFetch # "pending"
    /\ initFetch # "pending"
    /\ changes = <<>>
    /\ timeouts = {}
    /\ ~reloadRequested

\* C19: for a dictionary of non-empty names, when the enabled content
\* script has come to rest with its matcher built, no eligible text node
\* is left in the body.
QuiescentMeansCensored ==
    (Quiescent /\ isEnabled /\ nameRegex.compiled /\ NamesNonEmpty)
        => Eligible(dom, nameRegex) = {}

====
